---- MODULE Spec2Model ----
(***************************************************************************)
(* Model of glitt's interactive rebase-todo editor.                        *)
(*                                                                         *)
(*   src/src/editors/rebase/todo.rs    RebaseTodoLine (parse / Display),   *)
(*                                     RebaseTodo::parse                   *)
(*   src/src/editors/rebase/editor.rs  RebaseEditor (cursor, swap, save),  *)
(*                                     Editor::run (the key dispatch loop) *)
(*                                                                         *)
(* Text is a sequence of atoms: a word (a maximal run of non-whitespace    *)
(* characters, kept whole), the space SP, or the newline NL.  trim,        *)
(* split_whitespace, join and lines are modelled on that representation,   *)
(* so that formatting and parsing are distinct functions.                  *)
(***************************************************************************)
EXTENDS Integers, Sequences, FiniteSets, TLC

(***************************************************************************)
(* Bounds of the model.                                                    *)
(***************************************************************************)
\* most argument tokens after the first token of a parsed line
MaxArgs == 3
\* most lines in the todo file of a session
MaxLines == 3
\* most events handled in a session
MaxSteps == 3

(***************************************************************************)
(* Text.                                                                   *)
(***************************************************************************)
SP == " "
NL == "\n"

\* words that begin with '#'
HashWords == {"#", "#note"}

\* words that clap's lexer reads as a long or short flag ("-x...", "--x...")
FlagWords == {"-c", "-C", "--C", "-h", "--help"}

\* the escape token: everything after it is a positional value
Escape == "--"

\* ordinary words used as commit ids, labels, refnames, subjects, commands
PlainWords == {"a1", "b2"}

IsWhitespace(a) == a \in {SP, NL}

RECURSIVE TrimStart(_)
TrimStart(t) ==
  IF t # <<>> /\ IsWhitespace(Head(t)) THEN TrimStart(Tail(t)) ELSE t

RECURSIVE TrimEnd(_)
TrimEnd(t) ==
  IF t # <<>> /\ IsWhitespace(t[Len(t)])
  THEN TrimEnd(SubSeq(t, 1, Len(t) - 1))
  ELSE t

\* str::trim_start in place of str::trim: trailing whitespace stays
TrimStartOnly(t) == TrimStart(t)

\* str::trim
Trim(t) == TrimEnd(TrimStart(t))

\* str::split_whitespace, collected: the words of the text in order
SplitWhitespace(t) == SelectSeq(t, LAMBDA a : ~IsWhitespace(a))

\* [String]::join(sep) where every element is one word
RECURSIVE JoinWords(_, _)
JoinWords(ws, sep) ==
  IF ws = <<>> THEN <<>>
  ELSE IF Len(ws) = 1 THEN <<ws[1]>>
  ELSE <<ws[1], sep>> \o JoinWords(Tail(ws), sep)

\* [String]::join(sep) where every element is a text
RECURSIVE JoinTexts(_, _)
JoinTexts(ts, sep) ==
  IF ts = <<>> THEN <<>>
  ELSE IF Len(ts) = 1 THEN ts[1]
  ELSE ts[1] \o <<sep>> \o JoinTexts(Tail(ts), sep)

\* str::starts_with('#')
StartsWithHash(t) == t # <<>> /\ t[1] \in HashWords

\* str::lines: split at NL; a final NL does not open another line
RECURSIVE StrLinesFrom(_, _)
StrLinesFrom(t, cur) ==
  IF t = <<>> THEN (IF cur = <<>> THEN <<>> ELSE <<cur>>)
  ELSE IF Head(t) = NL THEN <<cur>> \o StrLinesFrom(Tail(t), <<>>)
  ELSE StrLinesFrom(Tail(t), Append(cur, Head(t)))

\* str::split('\n') in place of str::lines: a final NL opens an empty line
StrLinesSplit(t) ==
  StrLinesFrom(t, <<>>) \o
    (IF t # <<>> /\ t[Len(t)] = NL THEN << <<>> >> ELSE <<>>)

StrLines(t) == StrLinesFrom(t, <<>>)

(***************************************************************************)
(* RebaseTodoLine: the variants.  Option<String> is <<>> or <<s>>.         *)
(***************************************************************************)
Comment(message) == [kind |-> "Comment", message |-> message]
CommitLine(kind, commit, rest) == [kind |-> kind, commit |-> commit, rest |-> rest]
Exec(command) == [kind |-> "Exec", command |-> command]
LabelLine(kind, label, rest) == [kind |-> kind, label |-> label, rest |-> rest]
Merge(commit, label) == [kind |-> "Merge", commit |-> commit, label |-> label]
UpdateRef(refname) == [kind |-> "UpdateRef", refname |-> refname]

\* the variants with fields commit and rest that todo.rs declares
CommitKinds == {"Pick", "Edit", "Squash", "Fixup", "Drop"}

IsComment(line) == line.kind = "Comment"

(***************************************************************************)
(* impl Display for RebaseTodoLine.  The arms for the variants with a rest *)
(* field bind only commit / label (`..` drops rest).                       *)
(***************************************************************************)
\* Reword is constructed by Editor::run but todo.rs does not declare it;
\* its text follows the pattern of the other commit variants.
DisplayReword(line) == <<"reword", SP, line.commit>>

Display(line) ==
  CASE line.kind = "Comment" -> line.message
    [] line.kind = "Pick" -> <<"pick", SP, line.commit>>
    [] line.kind = "Edit" -> <<"edit", SP, line.commit>>
    [] line.kind = "Squash" -> <<"squash", SP, line.commit>>
    [] line.kind = "Fixup" -> <<"fixup", SP, line.commit>>
    [] line.kind = "Exec" -> <<"exec", SP>> \o JoinWords(line.command, SP)
    [] line.kind = "Drop" -> <<"drop", SP, line.commit>>
    [] line.kind = "Label" -> <<"label", SP, line.label>>
    [] line.kind = "Reset" -> <<"reset", SP, line.label>>
    [] line.kind = "Merge" ->
         IF line.commit # <<>>
         THEN <<"merge", SP, "-c", SP, line.commit[1], SP, line.label>>
         ELSE <<"merge", SP, line.label>>
    [] line.kind = "UpdateRef" -> <<"update-ref", SP, line.refname>>
    [] line.kind = "Reword" -> DisplayReword(line)

(***************************************************************************)
(* The clap derive on RebaseTodoLine: subcommand names, aliases and the    *)
(* arguments of each subcommand.                                           *)
(***************************************************************************)
\* #[command(alias = ...)] with r naming another variant than Reset
SubcommandOfAliasShifted(word) ==
  CASE word \in {"pick", "p"} -> "Pick"
    [] word \in {"edit", "e"} -> "Edit"
    [] word \in {"squash", "s"} -> "Squash"
    [] word \in {"fixup", "f"} -> "Fixup"
    [] word \in {"exec", "x"} -> "Exec"
    [] word \in {"drop", "d"} -> "Drop"
    [] word \in {"label", "l", "r"} -> "Label"
    [] word \in {"reset"} -> "Reset"
    [] word \in {"merge", "m"} -> "Merge"
    [] word \in {"update-ref", "u"} -> "UpdateRef"
    [] OTHER -> "none"

\* the variant a first token names: the kebab-case variant name or its alias
SubcommandOf(word) ==
  CASE word \in {"pick", "p"} -> "Pick"
    [] word \in {"edit", "e"} -> "Edit"
    [] word \in {"squash", "s"} -> "Squash"
    [] word \in {"fixup", "f"} -> "Fixup"
    [] word \in {"exec", "x"} -> "Exec"
    [] word \in {"drop", "d"} -> "Drop"
    [] word \in {"label", "l"} -> "Label"
    [] word \in {"reset", "r"} -> "Reset"
    [] word \in {"merge", "m"} -> "Merge"
    [] word \in {"update-ref", "u"} -> "UpdateRef"
    [] OTHER -> "none"

\* a String field: one required value
Single == [multiple |-> FALSE, required |-> TRUE, trailing |-> FALSE]
\* a Vec<String> field with num_args = 1.., trailing_var_arg = true:
\* not required, takes every remaining token once it has begun
VarArg == [multiple |-> TRUE, required |-> FALSE, trailing |-> TRUE]

\* the positional arguments of a subcommand, in field order
Positionals(kind) ==
  CASE kind \in CommitKinds -> <<Single, VarArg>>
    [] kind = "Exec" -> <<VarArg>>
    [] kind \in {"Label", "Reset"} -> <<Single, VarArg>>
    [] kind = "Merge" -> <<Single>>
    [] kind = "UpdateRef" -> <<Single>>

\* #[arg(short = 'c', alias = "C")] commit: Option<String>, on Merge only:
\* the short flag -c, and C as an alias of the long name (--C)
CommitFlags(kind) == IF kind = "Merge" THEN {"-c", "--C"} ELSE {}

(***************************************************************************)
(* clap's argument scan within a subcommand.  st.pos is the positional     *)
(* being filled, st.trailing is set once an Escape or a trailing_var_arg   *)
(* value has been seen, st.vals holds the values of each positional,       *)
(* st.opt the value of the commit option.                                  *)
(***************************************************************************)
ScanInit(kind) ==
  [pos |-> 1, trailing |-> FALSE,
   vals |-> [i \in 1..Len(Positionals(kind)) |-> <<>>],
   opt |-> <<>>, err |-> FALSE]

RECURSIVE ClapScan(_, _, _)
ClapScan(kind, toks, st) ==
  IF st.err \/ toks = <<>> THEN st
  ELSE LET t == Head(toks) IN
    IF ~st.trailing /\ t = Escape
    THEN ClapScan(kind, Tail(toks), [st EXCEPT !.trailing = TRUE])
    ELSE IF ~st.trailing /\ t \in FlagWords
    THEN IF /\ t \in CommitFlags(kind)
            /\ st.opt = <<>>
            /\ Len(toks) >= 2
            /\ toks[2] \notin FlagWords \cup {Escape}
         THEN ClapScan(kind, Tail(Tail(toks)), [st EXCEPT !.opt = <<toks[2]>>])
         ELSE [st EXCEPT !.err = TRUE]
    ELSE IF st.pos > Len(Positionals(kind))
    THEN [st EXCEPT !.err = TRUE]
    ELSE LET arg == Positionals(kind)[st.pos] IN
         ClapScan(kind, Tail(toks),
                  [st EXCEPT !.vals[st.pos] = Append(@, t),
                             !.trailing = @ \/ arg.trailing,
                             !.pos = IF arg.multiple THEN @ ELSE @ + 1])

\* every required positional has a value
ScanComplete(kind, st) ==
  \A i \in 1..Len(Positionals(kind)) :
    Positionals(kind)[i].required => st.vals[i] # <<>>

\* the variant built from the scanned values
BuildLine(kind, st) ==
  CASE kind \in CommitKinds -> CommitLine(kind, st.vals[1][1], st.vals[2])
    [] kind = "Exec" -> Exec(st.vals[1])
    [] kind \in {"Label", "Reset"} -> LabelLine(kind, st.vals[1][1], st.vals[2])
    [] kind = "Merge" -> Merge(st.opt, st.vals[1][1])
    [] kind = "UpdateRef" -> UpdateRef(st.vals[1][1])

\* RebaseTodoLineParser::try_parse_from(tokens).map(|parser| parser.line):
\* <<line>> for Ok, <<>> for Err
TryParseFrom(toks) ==
  IF toks = <<>> THEN <<>>
  ELSE LET kind == SubcommandOf(Head(toks)) IN
    IF kind = "none" THEN <<>>
    ELSE LET st == ClapScan(kind, Tail(toks), ScanInit(kind)) IN
      IF st.err \/ ~ScanComplete(kind, st) THEN <<>>
      ELSE <<BuildLine(kind, st)>>

\* RebaseTodoLine::parse
RebaseTodoLine_parse(text) ==
  LET line == Trim(text) IN
    IF StartsWithHash(line) \/ line = <<>>
    THEN Comment(line)
    ELSE LET r == TryParseFrom(SplitWhitespace(line)) IN
      IF r # <<>> THEN r[1] ELSE Comment(line)

\* RebaseTodo::parse
RebaseTodo_parse(content) ==
  LET ls == StrLines(content) IN
    [i \in 1..Len(ls) |-> RebaseTodoLine_parse(ls[i])]

(***************************************************************************)
(* Accessors of RebaseTodoLine that editor.rs calls and todo.rs does not   *)
(* define.  Option<&str> / Option<&[String]> are <<>> or <<v>>.            *)
(***************************************************************************)
\* get_commit: the commit id of the variants that carry one
get_commit(line) ==
  IF line.kind \in CommitKinds \cup {"Reword"} THEN <<line.commit>> ELSE <<>>

\* get_rest: the trailing-token field of the variants that have one
get_rest(line) ==
  IF line.kind \in CommitKinds \cup {"Reword", "Label", "Reset"}
  THEN <<line.rest>> ELSE <<>>

(***************************************************************************)
(* State.                                                                  *)
(***************************************************************************)
VARIABLES
  file,        \* content of the backing file (text)
  lines,       \* RebaseEditor.todo.lines
  cursor,      \* RebaseEditor.selected(), 0-based
  mode,        \* "Editing" while Editor::run loops, "Terminated" once it returned
  result,      \* what run returned: "None" (still running), "Ok", "Err"
  writes,      \* number of times the backing file was opened for writing
  lastEvent,   \* the event handled by the last step (NoEvent before the first)
  prevSwap,    \* the event of the step before the last if it was a swap, else NoEvent
  io,          \* outcome of the I/O of the last step
  prevLines,   \* lines before the last step
  prevCursor,  \* cursor before the last step
  steps,       \* number of events handled
  input,       \* parse pipeline: the line text given to RebaseTodoLine::parse
  parsed,      \* parse pipeline: <<>> or <<the parsed line>>
  output,      \* parse pipeline: <<>> or <<the text Display produced>>
  ppc,         \* parse pipeline: "idle", "start", "parsed", "shown"
  mainPc,      \* where main is: "idle", "start", "init", "path", "dispatch",
               \* "running", "restore", "exited"
  terminal,    \* "none", "acquired" (ratatui::init), "restored" (ratatui::restore)
  exit         \* what main returned: "None" (not yet), "Ok", "Err"

sessionVars ==
  <<file, lines, cursor, mode, result, writes, lastEvent, prevSwap, io,
    prevLines, prevCursor, steps>>
parseVars == <<input, parsed, output, ppc>>
mainVars == <<mainPc, terminal, exit>>
vars ==
  <<file, lines, cursor, mode, result, writes, lastEvent, prevSwap, io,
    prevLines, prevCursor, steps, input, parsed, output, ppc,
    mainPc, terminal, exit>>

\* all sequences over S of length at most n
RECURSIVE SeqsUpTo(_, _)
SeqsUpTo(S, n) ==
  IF n = 0 THEN {<<>>}
  ELSE LET shorter == SeqsUpTo(S, n - 1) IN
    shorter \cup {Append(q, x) : q \in shorter, x \in S}

(***************************************************************************)
(* The parse pipeline: one line through RebaseTodoLine::parse and Display. *)
(***************************************************************************)
Keywords ==
  {"pick", "edit", "squash", "fixup", "exec", "drop", "label", "reset",
   "merge", "update-ref"}
Aliases == {"p", "e", "s", "f", "x", "d", "l", "r", "m", "u"}

\* first tokens tried: every keyword and alias, an unknown word, a comment
\* marker and a bare identifier
Heads == Keywords \cup Aliases \cup {"zap", "#", "a1"}

\* tokens tried after the first
ArgWords == PlainWords \cup {"-c", "-C", "--C", Escape}

\* spacing of the tried lines: single spaces and nothing around, or a
\* leading space, double spaces between tokens and a trailing space
Pads == {"tight", "loose"}

RECURSIVE JoinWide(_)
JoinWide(toks) ==
  IF toks = <<>> THEN <<>>
  ELSE IF Len(toks) = 1 THEN <<toks[1]>>
  ELSE <<toks[1], SP, SP>> \o JoinWide(Tail(toks))

Render(toks, pad) ==
  IF pad = "tight" THEN JoinWords(toks, SP)
  ELSE <<SP>> \o JoinWide(toks) \o <<SP>>

ParseInputs ==
  {Render(toks, pad) :
     toks \in {<<>>} \cup {<<h>> \o args : h \in Heads, args \in SeqsUpTo(ArgWords, MaxArgs)},
     pad \in Pads}

SessionIdle ==
  /\ file = <<>> /\ lines = <<>> /\ cursor = 0
  /\ mode = "Idle" /\ result = "None" /\ writes = 0
  /\ lastEvent = [kind |-> "None"] /\ prevSwap = [kind |-> "None"] /\ io = "ok"
  /\ prevLines = <<>> /\ prevCursor = 0 /\ steps = 0

MainIdle == mainPc = "idle" /\ terminal = "none" /\ exit = "None"

ParseInit ==
  /\ SessionIdle
  /\ MainIdle
  /\ input \in ParseInputs
  /\ parsed = <<>>
  /\ output = <<>>
  /\ ppc = "start"

\* let line = RebaseTodoLine::parse(input)
ParseLine ==
  /\ ppc = "start"
  /\ parsed' = <<RebaseTodoLine_parse(input)>>
  /\ ppc' = "parsed"
  /\ UNCHANGED <<input, output>>
  /\ UNCHANGED sessionVars
  /\ UNCHANGED mainVars

\* format!("{}", line)
ShowLine ==
  /\ ppc = "parsed"
  /\ output' = <<Display(parsed[1])>>
  /\ ppc' = "shown"
  /\ UNCHANGED <<input, parsed>>
  /\ UNCHANGED sessionVars
  /\ UNCHANGED mainVars

ParseNext == ParseLine \/ ShowLine

ParseSpec == ParseInit /\ [][ParseNext]_vars

(***************************************************************************)
(* C2.  Every input line already in canonical form for a non-Comment       *)
(* variant (pick/edit/squash/fixup/drop <commit> <rest...>, exec           *)
(* <command...>, label/reset <label> <rest...>, merge [-c <commit>]        *)
(* <label>, update-ref <refname>) is reproduced exactly by parse followed  *)
(* by serialize, also when the trailing rest tokens are non-empty.         *)
(***************************************************************************)
AllPlain(ws) == \A i \in 1..Len(ws) : ws[i] \in PlainWords

\* canonical text per the table of variants: single spaces, full keyword,
\* the fields of the variant
IsCanonicalForm(text) ==
  LET toks == SplitWhitespace(text) IN
    /\ text = JoinWords(toks, SP)
    /\ toks # <<>>
    /\ \/ /\ toks[1] \in {"pick", "edit", "squash", "fixup", "drop", "label", "reset", "exec"}
          /\ Len(toks) >= 2
          /\ AllPlain(Tail(toks))
       \/ /\ toks[1] = "merge"
          /\ \/ Len(toks) = 2 /\ AllPlain(Tail(toks))
             \/ Len(toks) = 4 /\ toks[2] = "-c" /\ toks[3] \in PlainWords /\ toks[4] \in PlainWords
       \/ /\ toks[1] = "update-ref"
          /\ Len(toks) = 2
          /\ AllPlain(Tail(toks))

CanonicalRoundTrip ==
  (ppc = "shown" /\ IsCanonicalForm(input)) => output[1] = input

\* C2 fails on the code at a line with trailing tokens
CanonicalWithRestShown ==
  /\ ppc = "shown"
  /\ input = <<"pick", SP, "a1", SP, "b2">>
  /\ output[1] = <<"pick", SP, "a1">>

(***************************************************************************)
(* C10.  A single-letter alias followed by argument tokens that its        *)
(* keyword accepts parses to the same variant with the same fields as the  *)
(* line spelled with the full keyword (p pick, e edit, s squash, f fixup,  *)
(* d drop, x exec, l label, r reset, m merge, u update-ref), and its       *)
(* serialization is the same text, beginning with the full keyword.        *)
(***************************************************************************)
AliasKeyword(a) ==
  CASE a = "p" -> "pick" [] a = "e" -> "edit" [] a = "s" -> "squash"
    [] a = "f" -> "fixup" [] a = "d" -> "drop" [] a = "x" -> "exec"
    [] a = "l" -> "label" [] a = "r" -> "reset" [] a = "m" -> "merge"
    [] a = "u" -> "update-ref"

KeywordVariant(k) ==
  CASE k = "pick" -> "Pick" [] k = "edit" -> "Edit" [] k = "squash" -> "Squash"
    [] k = "fixup" -> "Fixup" [] k = "drop" -> "Drop" [] k = "exec" -> "Exec"
    [] k = "label" -> "Label" [] k = "reset" -> "Reset" [] k = "merge" -> "Merge"
    [] k = "update-ref" -> "UpdateRef"

\* the first word of a text, "" when it has none
FirstWord(text) ==
  IF SplitWhitespace(text) = <<>> THEN "" ELSE SplitWhitespace(text)[1]

\* the text with its first word replaced by w
ReplaceFirstWord(text, w) ==
  LET at == Len(text) - Len(TrimStart(text)) + 1 IN
    [i \in 1..Len(text) |-> IF i = at THEN w ELSE text[i]]

AliasParsesAsKeyword ==
  (ppc \in {"parsed", "shown"} /\ FirstWord(input) \in Aliases) =>
    LET keyword == AliasKeyword(FirstWord(input))
        spelled == RebaseTodoLine_parse(ReplaceFirstWord(input, keyword))
    IN  ~IsComment(spelled) =>
          /\ parsed[1] = spelled
          /\ parsed[1].kind = KeywordVariant(keyword)
          /\ ppc = "shown" =>
               /\ output[1] = Display(spelled)
               /\ output[1][1] = keyword

AliasResetWithRestShown ==
  /\ ppc = "shown"
  /\ FirstWord(input) = "r"
  /\ parsed[1].kind = "Reset"
  /\ parsed[1].rest # <<>>
  /\ output[1] = <<"reset", SP, parsed[1].label>>

(***************************************************************************)
(* RebaseEditor: the document operations.  An editor value is the pair     *)
(* [lines, cursor]; indexes are 0-based as in the source, the TLA+         *)
(* sequence holds index i at position i + 1.                               *)
(***************************************************************************)
At(ls, i) == ls[i + 1]

\* Iterator::position over the lines, for the first non-Comment line
RECURSIVE PositionNonComment(_, _)
PositionNonComment(ls, i) ==
  IF i >= Len(ls) THEN <<>>
  ELSE IF ~IsComment(At(ls, i)) THEN <<i>>
  ELSE PositionNonComment(ls, i + 1)

\* the initial selection falling back to the length: unwrap_or(lines.len())
InitialLineOrLen(ls) ==
  LET p == PositionNonComment(ls, 0) IN IF p # <<>> THEN p[1] ELSE Len(ls)

\* RebaseEditor::new: the initial selection, unwrap_or(0)
InitialLine(ls) ==
  LET p == PositionNonComment(ls, 0) IN IF p # <<>> THEN p[1] ELSE 0

\* the scan taking the next index whether or not it holds a Comment
ScanDownNoSkip(ls, idx, n) ==
  IF n = 0 THEN <<>> ELSE <<(idx + 1) % Len(ls)>>

\* the loop of move_cursor_down / swap_down: n iterations left, idx the
\* index before the step; <<>> when the loop ends without a match
RECURSIVE ScanDown(_, _, _)
ScanDown(ls, idx, n) ==
  IF n = 0 THEN <<>>
  ELSE LET next == (idx + 1) % Len(ls) IN
    IF ~IsComment(At(ls, next)) THEN <<next>> ELSE ScanDown(ls, next, n - 1)

\* the scan stopping at index 0 instead of wrapping to the last index
RECURSIVE ScanUpNoWrap(_, _, _)
ScanUpNoWrap(ls, idx, n) ==
  IF n = 0 THEN <<>>
  ELSE LET next == IF idx = 0 THEN 0 ELSE idx - 1 IN
    IF ~IsComment(At(ls, next)) THEN <<next>> ELSE ScanUpNoWrap(ls, next, n - 1)

\* the loop of move_cursor_up / swap_up
RECURSIVE ScanUp(_, _, _)
ScanUp(ls, idx, n) ==
  IF n = 0 THEN <<>>
  ELSE LET next == IF idx = 0 THEN Len(ls) - 1 ELSE idx - 1 IN
    IF ~IsComment(At(ls, next)) THEN <<next>> ELSE ScanUp(ls, next, n - 1)

\* slice::swap(a, b)
SliceSwap(ls, a, b) ==
  [i \in 1..Len(ls) |->
     IF i = a + 1 THEN ls[b + 1] ELSE IF i = b + 1 THEN ls[a + 1] ELSE ls[i]]

\* the move stepping to the next index without a scan or a wrap
move_cursor_downPastEnd(ed) == [ed EXCEPT !.cursor = @ + 1]

move_cursor_down(ed) ==
  IF Len(ed.lines) = 0 THEN ed
  ELSE LET found == ScanDown(ed.lines, ed.cursor, Len(ed.lines)) IN
    IF found # <<>> THEN [ed EXCEPT !.cursor = found[1]] ELSE ed

\* the move taking one step back, onto whatever line is there
move_cursor_upOneStep(ed) ==
  IF Len(ed.lines) = 0 THEN ed
  ELSE [ed EXCEPT !.cursor = IF @ = 0 THEN Len(ed.lines) - 1 ELSE @ - 1]

move_cursor_up(ed) ==
  IF Len(ed.lines) = 0 THEN ed
  ELSE LET found == ScanUp(ed.lines, ed.cursor, Len(ed.lines)) IN
    IF found # <<>> THEN [ed EXCEPT !.cursor = found[1]] ELSE ed

\* the swap exchanging with the adjacent index, a fixed offset
swap_downAdjacent(ed) ==
  IF Len(ed.lines) = 0 THEN ed
  ELSE LET next == (ed.cursor + 1) % Len(ed.lines) IN
    [lines |-> SliceSwap(ed.lines, ed.cursor, next), cursor |-> next]

\* the swap exchanging the lines without select(): the cursor stays
swap_downKeepsCursor(ed) ==
  IF Len(ed.lines) = 0 THEN ed
  ELSE LET found == ScanDown(ed.lines, ed.cursor, Len(ed.lines)) IN
    IF found # <<>>
    THEN [lines |-> SliceSwap(ed.lines, ed.cursor, found[1]), cursor |-> ed.cursor]
    ELSE ed

swap_down(ed) ==
  IF Len(ed.lines) = 0 THEN ed
  ELSE LET found == ScanDown(ed.lines, ed.cursor, Len(ed.lines)) IN
    IF found # <<>>
    THEN [lines |-> SliceSwap(ed.lines, ed.cursor, found[1]), cursor |-> found[1]]
    ELSE ed

\* the swap exchanging with the line before, a Comment included
swap_upAnyLine(ed) ==
  IF Len(ed.lines) = 0 THEN ed
  ELSE LET before == IF ed.cursor = 0 THEN Len(ed.lines) - 1 ELSE ed.cursor - 1 IN
    [lines |-> SliceSwap(ed.lines, ed.cursor, before), cursor |-> before]

swap_up(ed) ==
  IF Len(ed.lines) = 0 THEN ed
  ELSE LET found == ScanUp(ed.lines, ed.cursor, Len(ed.lines)) IN
    IF found # <<>>
    THEN [lines |-> SliceSwap(ed.lines, ed.cursor, found[1]), cursor |-> found[1]]
    ELSE ed

\* the replacement landing on the first line instead of the selected one
set_current_lineFirst(ed, line) ==
  [ed EXCEPT !.lines = [i \in 1..Len(ed.lines) |->
                          IF i = 1 THEN line ELSE ed.lines[i]]]

\* the replacement inserting the line before the selected one (Vec::insert)
set_current_lineInsert(ed, line) ==
  [ed EXCEPT !.lines = SubSeq(ed.lines, 1, ed.cursor) \o <<line>> \o
                         SubSeq(ed.lines, ed.cursor + 1, Len(ed.lines))]

\* set_current_line: self.todo.lines_mut()[idx] = line
set_current_line(ed, line) ==
  [ed EXCEPT !.lines = [i \in 1..Len(ed.lines) |->
                          IF i = ed.cursor + 1 THEN line ELSE ed.lines[i]]]

\* get_current_line: self.todo.lines().get(self.selected())
get_current_line(ed) ==
  IF ed.cursor < Len(ed.lines) THEN <<At(ed.lines, ed.cursor)>> ELSE <<>>

\* the content save() writes
SaveContent(ls) == JoinTexts([i \in 1..Len(ls) |-> Display(ls[i])], NL)

(***************************************************************************)
(* Events read by Editor::run.                                             *)
(***************************************************************************)
Key(code, mods) == [kind |-> "Key", code |-> code, mods |-> mods]
NoEvent == [kind |-> "None"]

ActionCodes == {"p", "e", "r", "s", "f", "d"}

\* the variant each action arm constructs
ActionVariant(code) ==
  CASE code = "p" -> "Pick" [] code = "e" -> "Edit" [] code = "r" -> "Reword"
    [] code = "s" -> "Squash" [] code = "f" -> "Fixup" [] code = "d" -> "Drop"

\* the events tried: every bound key without modifier, an unbound key,
\* the arrows with SHIFT, an arrow with another modifier, a non-key event
Events ==
  {Key(c, "NONE") : c \in {"Down", "Up", "q", "a", "z"} \cup ActionCodes}
    \cup {Key("Down", "SHIFT"), Key("Up", "SHIFT"), Key("Down", "CONTROL")}
    \cup {[kind |-> "Resize"]}

IsKey(ev, code) == ev.kind = "Key" /\ ev.code = code

\* the lines of the files a session is started on
LineTexts ==
  {<<"#note">>,
   <<"pick", SP, "a1", SP, "b2">>,
   <<"exec", SP, "a1">>}

\* a todo file as git writes it: every line ends with a newline
TodoFile(texts) == JoinTexts(texts, NL) \o (IF texts # <<>> THEN <<NL>> ELSE <<>>)

Editor == [lines |-> lines, cursor |-> cursor]

\* the commit guard also answering for an Exec line, with the first word of
\* its command
CurrentCommitOrCommand ==
  LET line == get_current_line(Editor) IN
    IF line = <<>> THEN <<>>
    ELSE IF line[1].kind = "Exec" /\ line[1].command # <<>> THEN <<line[1].command[1]>>
    ELSE get_commit(line[1])

\* let commit = line.and_then(|l| l.get_commit())
CurrentCommit ==
  LET line == get_current_line(Editor) IN
    IF line = <<>> THEN <<>> ELSE get_commit(line[1])

\* line.and_then(|l| l.get_rest()).unwrap_or_default().to_vec()
CurrentRest ==
  LET line == get_current_line(Editor) IN
    IF line = <<>> \/ get_rest(line[1]) = <<>> THEN <<>> ELSE get_rest(line[1])[1]

(***************************************************************************)
(* The session: RebaseEditor::new, then Editor::run.                       *)
(***************************************************************************)
ParseIdle == input = <<>> /\ parsed = <<>> /\ output = <<>> /\ ppc = "idle"

Init ==
  /\ ParseIdle
  /\ \E texts \in SeqsUpTo(LineTexts, MaxLines) :
       file = TodoFile(texts)
  /\ lines = RebaseTodo_parse(file)
  /\ cursor = InitialLine(lines)
  /\ mode = "Editing"
  /\ result = "None"
  /\ writes = 0
  /\ lastEvent = NoEvent
  /\ prevSwap = NoEvent
  /\ io = "ok"
  /\ prevLines = lines
  /\ prevCursor = cursor
  /\ steps = 0
  /\ mainPc = "running"
  /\ terminal = "acquired"
  /\ exit = "None"

\* ev if it is Shift+Down or Shift+Up, NoEvent otherwise
SwapOnly(ev) ==
  IF ev \in {Key("Down", "SHIFT"), Key("Up", "SHIFT")} THEN ev ELSE NoEvent

\* bookkeeping common to every handled event
Handled(ev) ==
  /\ lastEvent' = ev
  /\ prevSwap' = SwapOnly(lastEvent)
  /\ prevLines' = lines
  /\ prevCursor' = cursor
  /\ steps' = steps + 1
  /\ UNCHANGED parseVars
  /\ UNCHANGED mainVars

\* an arm that also saves the document to the file on every edit
ContinueSaving(ev, ed) ==
  /\ mode = "Editing"
  /\ steps < MaxSteps
  /\ lines' = ed.lines
  /\ cursor' = ed.cursor
  /\ io' = "ok"
  /\ file' = SaveContent(ed.lines)
  /\ writes' = writes + 1
  /\ UNCHANGED <<mode, result>>
  /\ Handled(ev)

\* an arm that edits the document and loops
Continue(ev, ed) ==
  /\ mode = "Editing"
  /\ steps < MaxSteps
  /\ lines' = ed.lines
  /\ cursor' = ed.cursor
  /\ io' = "ok"
  /\ UNCHANGED <<file, mode, result, writes>>
  /\ Handled(ev)

\* (Key Down with SHIFT, _) => self.swap_down()
SwapDown ==
  \E ev \in Events :
    /\ IsKey(ev, "Down") /\ ev.mods = "SHIFT"
    /\ Continue(ev, swap_down(Editor))

\* (Key Down, _) => self.move_cursor_down()
MoveDown ==
  \E ev \in Events :
    /\ IsKey(ev, "Down") /\ ev.mods # "SHIFT"
    /\ Continue(ev, move_cursor_down(Editor))

\* (Key Up with SHIFT, _) => self.swap_up()
SwapUp ==
  \E ev \in Events :
    /\ IsKey(ev, "Up") /\ ev.mods = "SHIFT"
    /\ Continue(ev, swap_up(Editor))

\* (Key Up, _) => self.move_cursor_up()
MoveUp ==
  \E ev \in Events :
    /\ IsKey(ev, "Up") /\ ev.mods # "SHIFT"
    /\ Continue(ev, move_cursor_up(Editor))

\* (Key Char(p|e|r|s|f|d), Some(commit)) => self.set_current_line(...)
ActionKey ==
  \E ev \in Events :
    /\ ev.kind = "Key" /\ ev.code \in ActionCodes
    /\ CurrentCommit # <<>>
    /\ Continue(ev, set_current_line(Editor,
                  CommitLine(ActionVariant(ev.code), CurrentCommit[1], CurrentRest)))

\* _ => {} : no arm matches, also an action key while commit is None
Ignore ==
  \E ev \in Events :
    /\ \/ ev.kind # "Key"
       \/ ev.kind = "Key" /\ ev.code \notin {"Down", "Up", "q", "a"} \cup ActionCodes
       \/ ev.kind = "Key" /\ ev.code \in ActionCodes /\ CurrentCommit = <<>>
    /\ Continue(ev, Editor)

\* an arm that returns from run
Return(ev, res, outcome) ==
  /\ mode' = "Terminated"
  /\ result' = res
  /\ io' = outcome
  /\ UNCHANGED <<lines, cursor>>
  /\ Handled(ev)

\* the quit arm ignoring the result of save(): a failed write returns Ok
QuitSwallowsError ==
  \E ev \in Events :
    /\ mode = "Editing"
    /\ IsKey(ev, "q")
    /\ \/ /\ file' = file /\ writes' = writes
          /\ Return(ev, "Ok", "create_err")
       \/ /\ file' = SaveContent(lines) /\ writes' = writes + 1
          /\ Return(ev, "Ok", "ok")

\* (Key Char('q'), _) => { self.save()?; terminal.clear()?; return Ok(()) }
\* std::fs::write creates (truncates) the file, then writes the content; a
\* write that fails leaves the file with part of the content (some of the
\* lines, possibly none)
Quit ==
  \E ev \in Events :
    /\ mode = "Editing"
    /\ IsKey(ev, "q")
    /\ \/ /\ file' = file /\ writes' = writes
          /\ Return(ev, "Err", "create_err")
       \/ /\ \E k \in 0..(Len(lines) - 1) :
               file' = SaveContent(SubSeq(lines, 1, k))
          /\ writes' = writes + 1
          /\ Return(ev, "Err", "write_err")
       \/ /\ file' = SaveContent(lines) /\ writes' = writes + 1
          /\ Return(ev, "Err", "clear_err")
       \/ /\ file' = SaveContent(lines) /\ writes' = writes + 1
          /\ Return(ev, "Ok", "ok")

\* the abort arm returning without writing the file
AbortKeepsFile ==
  \E ev \in Events :
    /\ mode = "Editing"
    /\ IsKey(ev, "a")
    /\ \/ /\ file' = file /\ writes' = writes
          /\ Return(ev, "Err", "clear_err")
       \/ /\ file' = file /\ writes' = writes
          /\ Return(ev, "Ok", "ok")

\* (Key Char('a'), _) => { terminal.clear()?; self.save_empty()?; return Ok(()) }
Abort ==
  \E ev \in Events :
    /\ mode = "Editing"
    /\ IsKey(ev, "a")
    /\ \/ /\ file' = file /\ writes' = writes
          /\ Return(ev, "Err", "clear_err")
       \/ /\ file' = file /\ writes' = writes
          /\ Return(ev, "Err", "create_err")
       \/ /\ file' = <<>> /\ writes' = writes + 1
          /\ Return(ev, "Ok", "ok")

\* terminal.clear()?, terminal.draw(..)? or event::read()? fails: run
\* returns the error before any arm is entered
LoopIoError ==
  /\ mode = "Editing"
  /\ \E outcome \in {"draw_err", "read_err"} :
       /\ mode' = "Terminated"
       /\ result' = "Err"
       /\ io' = outcome
  /\ lastEvent' = NoEvent
  /\ prevSwap' = SwapOnly(lastEvent)
  /\ prevLines' = lines
  /\ prevCursor' = cursor
  /\ UNCHANGED <<file, lines, cursor, writes, steps>>
  /\ UNCHANGED parseVars
  /\ UNCHANGED mainVars

Next ==
  \/ SwapDown
  \/ MoveDown
  \/ SwapUp
  \/ MoveUp
  \/ ActionKey
  \/ Ignore
  \/ Quit
  \/ Abort
  \/ LoopIoError

Spec == Init /\ [][Next]_vars

(***************************************************************************)
(* Vocabulary of the session claims.                                       *)
(***************************************************************************)
ShiftDown == Key("Down", "SHIFT")
ShiftUp == Key("Up", "SHIFT")

Actionable(ls) == {i \in 0..(Len(ls) - 1) : ~IsComment(At(ls, i))}

\* the index k steps after (dir = "next") or before (dir = "previous") index
\* from, wrapping around a sequence of n elements
Stepped(from, k, n, dir) ==
  IF dir = "next" THEN (from + k) % n ELSE (from + k * (n - 1)) % n

\* target is the nearest non-Comment index of ls from index from in
\* direction dir, scanning circularly over at most Len(ls) indexes
IsNearestActionable(ls, from, dir, target) ==
  \E k \in 1..Len(ls) :
    /\ target = Stepped(from, k, Len(ls), dir)
    /\ ~IsComment(At(ls, target))
    /\ \A j \in 1..(k - 1) : IsComment(At(ls, Stepped(from, j, Len(ls), dir)))

(***************************************************************************)
(* C1.  In every state of a session, from construction on and after any    *)
(* sequence of move, swap and action-key events, if the document has a     *)
(* non-Comment line then the line under the cursor is not a Comment.       *)
(***************************************************************************)
CursorOnActionable ==
  (mode \in {"Editing", "Terminated"} /\ Actionable(lines) # {}) =>
    cursor \in Actionable(lines)

\* a swap that wrapped around, in a document that holds a Comment
SwappedPastComment ==
  /\ lastEvent = ShiftDown
  /\ lines # prevLines
  /\ cursor < prevCursor
  /\ \E i \in 1..Len(lines) : IsComment(lines[i])
  /\ cursor \in Actionable(lines)

(***************************************************************************)
(* C3.  When q is received while Editing (and the I/O of the step          *)
(* succeeds), the backing file becomes the canonical serialization of      *)
(* every document line in order, joined by one newline with no trailing    *)
(* newline, and the session is Terminated with normal completion.          *)
(* Canonical text is that of the table of variants: the keyword, the       *)
(* commit or label, then the rest tokens.                                  *)
(***************************************************************************)
KindKeyword(kind) ==
  CASE kind = "Pick" -> "pick" [] kind = "Edit" -> "edit"
    [] kind = "Squash" -> "squash" [] kind = "Fixup" -> "fixup"
    [] kind = "Drop" -> "drop" [] kind = "Reword" -> "reword"
    [] kind = "Label" -> "label" [] kind = "Reset" -> "reset"

CanonicalText(line) ==
  CASE line.kind = "Comment" -> line.message
    [] line.kind \in CommitKinds \cup {"Reword"} ->
         JoinWords(<<KindKeyword(line.kind), line.commit>> \o line.rest, SP)
    [] line.kind \in {"Label", "Reset"} ->
         JoinWords(<<KindKeyword(line.kind), line.label>> \o line.rest, SP)
    [] line.kind = "Exec" -> JoinWords(<<"exec">> \o line.command, SP)
    [] line.kind = "Merge" ->
         IF line.commit # <<>>
         THEN JoinWords(<<"merge", "-c", line.commit[1], line.label>>, SP)
         ELSE JoinWords(<<"merge", line.label>>, SP)
    [] line.kind = "UpdateRef" -> JoinWords(<<"update-ref", line.refname>>, SP)

QuitWritesCanonicalDocument ==
  (IsKey(lastEvent, "q") /\ io = "ok") =>
    /\ file = JoinTexts([i \in 1..Len(lines) |-> CanonicalText(lines[i])], NL)
    /\ mode = "Terminated"
    /\ result = "Ok"

(***************************************************************************)
(* C4.  When a is received while Editing (and the I/O of the step          *)
(* succeeds), whatever the document holds and whatever edits came before,  *)
(* the backing file becomes empty and the session is Terminated with       *)
(* normal completion.                                                      *)
(***************************************************************************)
AbortEmptiesFile ==
  (IsKey(lastEvent, "a") /\ io = "ok") =>
    /\ file = <<>>
    /\ mode = "Terminated"
    /\ result = "Ok"

\* an abort after two edits of a document that still holds lines
AbortedAfterEdits ==
  /\ IsKey(lastEvent, "a")
  /\ io = "ok"
  /\ steps = 3
  /\ \E i \in 1..Len(lines) : lines[i].kind = "Reword"
  /\ file = <<>>
  /\ result = "Ok"

(***************************************************************************)
(* C5.  The backing file is written at most once in a session, only by the *)
(* step that handles q or a; no other event changes the file; once the     *)
(* session is Terminated no event is handled and neither the document nor  *)
(* the file changes.                                                       *)
(***************************************************************************)
WriteOnceOnExit ==
  [][ /\ (file' # file \/ writes' # writes) =>
           /\ mode = "Editing"
           /\ mode' = "Terminated"
           /\ IsKey(lastEvent', "q") \/ IsKey(lastEvent', "a")
           /\ writes = 0
           /\ writes' = 1
      /\ mode = "Terminated" =>
           UNCHANGED <<file, lines, cursor, mode, result, writes, lastEvent, steps>>
    ]_vars

\* a session that edited, then wrote the file once on q
QuitWroteOnceAfterEdits ==
  /\ mode = "Terminated"
  /\ IsKey(lastEvent, "q")
  /\ writes = 1
  /\ steps = 3
  /\ file = SaveContent(lines)
  /\ file # <<>>

(***************************************************************************)
(* C6.  A swap with the cursor on an actionable line exchanges the line at *)
(* the cursor with the nearest non-Comment line in the direction of the    *)
(* swap (circular scan), moves the cursor to that index, so that the       *)
(* selected line is again under the cursor, and leaves every other line,   *)
(* skipped Comments included, at its index.                                *)
(***************************************************************************)
SwapExchangesWithNearest ==
  (/\ lastEvent \in {ShiftDown, ShiftUp}
   /\ prevLines # <<>>
   /\ prevCursor \in Actionable(prevLines)) =>
    LET dir == IF lastEvent = ShiftDown THEN "next" ELSE "previous" IN
      /\ IsNearestActionable(prevLines, prevCursor, dir, cursor)
      /\ Len(lines) = Len(prevLines)
      /\ At(lines, cursor) = At(prevLines, prevCursor)
      /\ At(lines, prevCursor) = At(prevLines, cursor)
      /\ \A i \in 0..(Len(lines) - 1) :
           i \notin {cursor, prevCursor} => At(lines, i) = At(prevLines, i)

\* a swap upwards over a Comment that stays in place
SwappedUpOverComment ==
  /\ lastEvent = ShiftUp
  /\ Len(lines) = 3
  /\ prevCursor = 2 /\ cursor = 0
  /\ IsComment(At(lines, 1))
  /\ At(lines, 0) # At(lines, 2)
  /\ At(lines, 0) = At(prevLines, 2)

(***************************************************************************)
(* C7.  On a document with at least two actionable lines, swap(next)       *)
(* immediately followed by swap(previous) leaves the sequence of lines as  *)
(* it was before the pair.                                                 *)
(***************************************************************************)
SwapDownThenUpRestores ==
  [][ (/\ lastEvent = ShiftDown
       /\ lastEvent' = ShiftUp
       /\ steps' = steps + 1
       /\ Cardinality(Actionable(prevLines)) >= 2) =>
        lines' = prevLines
    ]_vars

\* the pair has run over a document whose order the first swap changed
SwapPairDone ==
  /\ lastEvent = ShiftUp
  /\ prevSwap = ShiftDown
  /\ steps >= 2
  /\ Cardinality(Actionable(lines)) >= 2
  /\ lines # prevLines
  /\ \E i \in 1..Len(lines) : IsComment(lines[i])

(***************************************************************************)
(* C8.  move(next) sets the cursor to the first non-Comment index found    *)
(* stepping forward from the cursor with wrap-around, move(previous) the   *)
(* same stepping backward; at most length indexes are visited, so a single *)
(* actionable line keeps the cursor; with no actionable line the cursor    *)
(* stays; move never changes a line.                                       *)
(***************************************************************************)
MoveFindsNearest ==
  (lastEvent.kind = "Key" /\ lastEvent.code \in {"Down", "Up"}
     /\ lastEvent.mods # "SHIFT") =>
    LET dir == IF lastEvent.code = "Down" THEN "next" ELSE "previous" IN
      /\ lines = prevLines
      /\ IF Actionable(prevLines) = {}
         THEN cursor = prevCursor
         ELSE IsNearestActionable(prevLines, prevCursor, dir, cursor)

\* a move up that wrapped from the first line to the last, past a Comment
MovedUpWithWrap ==
  /\ lastEvent = Key("Up", "NONE")
  /\ Len(lines) = 3
  /\ prevCursor = 0 /\ cursor = 1
  /\ IsComment(At(lines, 2))

(***************************************************************************)
(* C9.  An action key received while the current line carries a commit     *)
(* identifier replaces the line at the cursor by the variant the key names *)
(* (p pick, e edit, r reword, s squash, f fixup, d drop) with the same     *)
(* commit identifier and the same rest tokens; the cursor, the number of   *)
(* lines and every other line are unchanged.                               *)
(***************************************************************************)
KeyVariant(code) ==
  CASE code = "p" -> "Pick" [] code = "e" -> "Edit" [] code = "r" -> "Reword"
    [] code = "s" -> "Squash" [] code = "f" -> "Fixup" [] code = "d" -> "Drop"

ActionKeyConvertsLine ==
  (/\ lastEvent.kind = "Key" /\ lastEvent.code \in ActionCodes
   /\ prevCursor < Len(prevLines)
   /\ get_commit(At(prevLines, prevCursor)) # <<>>) =>
    /\ cursor = prevCursor
    /\ Len(lines) = Len(prevLines)
    /\ At(lines, cursor).kind = KeyVariant(lastEvent.code)
    /\ At(lines, cursor).commit = At(prevLines, prevCursor).commit
    /\ At(lines, cursor).rest = At(prevLines, prevCursor).rest
    /\ DOMAIN At(lines, cursor) = {"kind", "commit", "rest"}
    /\ \A i \in 0..(Len(lines) - 1) : i # cursor => At(lines, i) = At(prevLines, i)

\* a pick with a subject turned into a squash, not on the first line
PickBecameSquash ==
  /\ lastEvent = Key("s", "NONE")
  /\ cursor > 0
  /\ At(prevLines, cursor) = CommitLine("Pick", "a1", <<"b2">>)
  /\ At(lines, cursor) = CommitLine("Squash", "a1", <<"b2">>)

(***************************************************************************)
(* C11.  parse is total: a line whose first token is no keyword or alias,  *)
(* or that lacks a required field of its keyword (the commit of            *)
(* pick/edit/squash/fixup/drop, the command of exec, the label of          *)
(* label/reset/merge, the refname of update-ref), parses to Comment whose  *)
(* message is the line with the surrounding whitespace trimmed and the     *)
(* inner text untouched, and serializes back to that trimmed text.         *)
(***************************************************************************)
\* the text between its first and its last word, both included
Trimmed(text) ==
  LET words == {i \in 1..Len(text) : text[i] # SP /\ text[i] # NL} IN
    IF words = {} THEN <<>>
    ELSE SubSeq(text,
                CHOOSE i \in words : \A j \in words : i <= j,
                CHOOSE i \in words : \A j \in words : i >= j)

\* the tokens name a keyword or alias and stop before its required field
LacksRequiredField(toks) ==
  /\ toks # <<>>
  /\ toks[1] \in Keywords \cup Aliases
  /\ \/ Len(toks) = 1
     \/ /\ toks[1] \in {"merge", "m"}
        /\ Len(toks) = 3 /\ toks[2] = "-c" /\ toks[3] \in PlainWords

UnparsableBecomesComment ==
  LET toks == SplitWhitespace(input) IN
    (/\ ppc \in {"parsed", "shown"}
     /\ toks # <<>>
     /\ toks[1] \notin Keywords \cup Aliases \/ LacksRequiredField(toks)) =>
      /\ parsed[1] = Comment(Trimmed(input))
      /\ ppc = "shown" => output[1] = Trimmed(input)

\* C11 fails on the code at an exec line without command
BareExecShown ==
  /\ ppc = "shown"
  /\ input = <<"exec">>
  /\ parsed[1] = Exec(<<>>)
  /\ output[1] = <<"exec", SP>>

(***************************************************************************)
(* C12.  On a merge line the flag token -c, and likewise -C, followed by a *)
(* commit identifier and then the label is read as the commit field; a     *)
(* merge line with only a label parses to Merge without commit; the line   *)
(* serializes as `merge -c <commit> <label>` with a commit and as          *)
(* `merge <label>` without.                                                *)
(***************************************************************************)
MergeFlagsRecognized ==
  LET toks == SplitWhitespace(input) IN
    (ppc \in {"parsed", "shown"} /\ toks # <<>> /\ toks[1] \in {"merge", "m"}) =>
      /\ (/\ Len(toks) = 4
          /\ toks[2] \in {"-c", "-C"}
          /\ toks[3] \in PlainWords /\ toks[4] \in PlainWords) =>
           /\ parsed[1] = Merge(<<toks[3]>>, toks[4])
           /\ ppc = "shown" =>
                output[1] = <<"merge", SP, "-c", SP, toks[3], SP, toks[4]>>
      /\ (Len(toks) = 2 /\ toks[2] \in PlainWords) =>
           /\ parsed[1] = Merge(<<>>, toks[2])
           /\ ppc = "shown" => output[1] = <<"merge", SP, toks[2]>>

\* C12 fails on the code at the upper-case flag
MergeUpperFlagShown ==
  /\ ppc = "shown"
  /\ input = <<"merge", SP, "-C", SP, "a1", SP, "b2">>
  /\ IsComment(parsed[1])

(***************************************************************************)
(* main: parse the arguments, acquire the terminal, resolve the path, run  *)
(* the rebase editor or the fallback editor, restore the terminal.  Every  *)
(* `?` in main returns at once with the error.                             *)
(***************************************************************************)
MainInit ==
  /\ ParseIdle
  /\ \E texts \in SeqsUpTo(LineTexts, MaxLines) :
       file = TodoFile(texts)
  /\ lines = <<>>
  /\ cursor = 0
  /\ mode = "Idle"
  /\ result = "None"
  /\ writes = 0
  /\ lastEvent = NoEvent
  /\ prevSwap = NoEvent
  /\ io = "ok"
  /\ prevLines = <<>>
  /\ prevCursor = 0
  /\ steps = 0
  /\ mainPc = "start"
  /\ terminal = "none"
  /\ exit = "None"

\* a step of main outside the editor: the editor's state is untouched
MainStep(pc, term, ex, outcome) ==
  /\ mainPc' = pc
  /\ terminal' = term
  /\ exit' = ex
  /\ io' = outcome
  /\ UNCHANGED <<file, lines, cursor, mode, result, writes, lastEvent,
                 prevSwap, prevLines, prevCursor, steps>>
  /\ UNCHANGED parseVars

\* let args = Cli::try_parse()?;
MainParseArgs ==
  /\ mainPc = "start"
  /\ \/ MainStep("init", terminal, exit, "ok")
     \/ MainStep("exited", terminal, "Err", "args_err")

\* let terminal = ratatui::init();
MainInitTerminal ==
  /\ mainPc = "init"
  /\ MainStep("path", "acquired", exit, "ok")

\* let cwd = std::env::current_dir()?; let path = ... canonicalize()?
MainResolvePath ==
  /\ mainPc = "path"
  /\ \/ MainStep("dispatch", terminal, exit, "ok")
     \/ \E outcome \in {"cwd_err", "canonicalize_err"} :
          MainStep("exited", terminal, "Err", outcome)

\* should_run(&path) holds: let mut editor = RebaseEditor::new(path)?;
\* new fails when the file cannot be read, the path has no parent or no
\* repository is discovered
MainNewEditor ==
  /\ mainPc = "dispatch"
  /\ \/ \E outcome \in {"file_read_err", "discover_err"} :
          MainStep("exited", terminal, "Err", outcome)
     \/ /\ lines' = RebaseTodo_parse(file)
        /\ cursor' = InitialLine(lines')
        /\ prevLines' = lines'
        /\ prevCursor' = cursor'
        /\ mode' = "Editing"
        /\ mainPc' = "running"
        /\ io' = "ok"
        /\ UNCHANGED <<file, result, writes, lastEvent, prevSwap, steps,
                       terminal, exit>>
        /\ UNCHANGED parseVars

\* should_run(&path) fails: Command::new(args.fallback).arg(&path).status()
\* mapped to Ok / Err by the exit status, `?` on a failure to spawn
MainFallback ==
  /\ mainPc = "dispatch"
  /\ \/ MainStep("exited", terminal, "Err", "spawn_err")
     \/ /\ \E res \in {"Ok", "Err"} : result' = res
        /\ mainPc' = "restore"
        /\ io' = "ok"
        /\ UNCHANGED <<file, lines, cursor, mode, writes, lastEvent, prevSwap,
                       prevLines, prevCursor, steps, terminal, exit>>
        /\ UNCHANGED parseVars

\* ratatui::restore(); result
MainRestore ==
  /\ \/ mainPc = "running" /\ mode = "Terminated"
     \/ mainPc = "restore"
  /\ mainPc' = "exited"
  /\ terminal' = "restored"
  /\ exit' = result
  /\ UNCHANGED sessionVars
  /\ UNCHANGED parseVars

MainNext ==
  \/ MainParseArgs
  \/ MainInitTerminal
  \/ MainResolvePath
  \/ MainNewEditor
  \/ MainFallback
  \/ Next
  \/ MainRestore

MainSpec == MainInit /\ [][MainNext]_vars

(***************************************************************************)
(* C13.  The terminal, once acquired, is released on every exit path of    *)
(* the program: after normal completion of the session, after an error of  *)
(* the session loop, and after a failure between acquiring the terminal    *)
(* and starting the loop (working directory, path resolution, reading the  *)
(* file, discovering the repository).                                      *)
(***************************************************************************)
TerminalReleasedOnExit ==
  (mainPc = "exited" /\ terminal # "none") => terminal = "restored"

\* C13 fails on the code when the todo file cannot be read
ExitedWithTerminalHeld ==
  /\ mainPc = "exited"
  /\ io = "file_read_err"
  /\ terminal = "acquired"
  /\ exit = "Err"

(***************************************************************************)
(* C14.  The session returns success only after a q or a whose file write  *)
(* succeeded; a failed write-back on q or a, and a failed initial read,    *)
(* reach the host as an error, once: nothing is retried and no further     *)
(* event is handled.                                                       *)
(***************************************************************************)
FailureReturned ==
  /\ (mode = "Terminated" /\ result = "Ok") =>
       /\ IsKey(lastEvent, "q") \/ IsKey(lastEvent, "a")
       /\ io = "ok"
       /\ writes = 1
  /\ (mode = "Terminated" /\ io \in {"create_err", "write_err"}) =>
       /\ IsKey(lastEvent, "q") \/ IsKey(lastEvent, "a")
       /\ result = "Err"
       /\ writes <= 1
       /\ mainPc = "exited" => exit = "Err"
  /\ io = "file_read_err" =>
       /\ mainPc = "exited" /\ exit = "Err"
       /\ mode = "Idle" /\ steps = 0 /\ writes = 0

ErrorsSurfaceOnce ==
  /\ []FailureReturned
  /\ [][ /\ mode = "Terminated" =>
              UNCHANGED <<file, lines, cursor, mode, result, writes, lastEvent, io, steps>>
         /\ exit # "None" => UNCHANGED vars
       ]_vars

\* a failed save on q after two edits, reported by main
WriteFailureReported ==
  /\ mainPc = "exited"
  /\ IsKey(lastEvent, "q")
  /\ io = "write_err"
  /\ steps = 3
  /\ result = "Err"
  /\ exit = "Err"
  /\ writes = 1

(***************************************************************************)
(* The document pipeline: a file text through RebaseTodo::parse, then      *)
(* every line through Display, as tests::parse_rebase_todo_multiple_lines  *)
(* does.                                                                   *)
(***************************************************************************)
\* line texts tried in a file: empty, blank, a comment, a command, an
\* indented command
DocLineTexts ==
  {<<>>, <<SP>>, <<"#note">>, <<"pick", SP, "a1">>, <<SP, "exec", SP, "a1", SP>>}

\* file texts tried: up to MaxLines line texts joined by NL, with and
\* without a final NL
DocContents ==
  {JoinTexts(ts, NL) \o end :
     ts \in SeqsUpTo(DocLineTexts, MaxLines), end \in {<<>>, <<NL>>}}

DocInit ==
  /\ SessionIdle
  /\ MainIdle
  /\ input \in DocContents
  /\ parsed = <<>>
  /\ output = <<>>
  /\ ppc = "doc_start"

\* let todo = RebaseTodo::parse(content)
ParseDocument ==
  /\ ppc = "doc_start"
  /\ parsed' = RebaseTodo_parse(input)
  /\ ppc' = "doc_parsed"
  /\ UNCHANGED <<input, output>>
  /\ UNCHANGED sessionVars
  /\ UNCHANGED mainVars

\* todo.lines().iter().map(|l| l.to_string()).collect::<Vec<_>>()
ShowDocument ==
  /\ ppc = "doc_parsed"
  /\ output' = [i \in 1..Len(parsed) |-> Display(parsed[i])]
  /\ ppc' = "doc_shown"
  /\ UNCHANGED <<input, parsed>>
  /\ UNCHANGED sessionVars
  /\ UNCHANGED mainVars

DocNext == ParseDocument \/ ShowDocument

DocSpec == DocInit /\ [][DocNext]_vars

\* positions of the newlines of a file text
Newlines(content) == {i \in 1..Len(content) : content[i] = NL}

\* position of the k-th newline
NthNewline(content, k) ==
  CHOOSE i \in Newlines(content) :
    Cardinality({j \in Newlines(content) : j <= i}) = k

\* number of newline-separated lines: one per newline, and one more for
\* text after the last newline
LineCount(content) ==
  Cardinality(Newlines(content)) +
    (IF content # <<>> /\ content[Len(content)] # NL THEN 1 ELSE 0)

\* text of the k-th newline-separated line
FileLine(content, k) ==
  SubSeq(content,
         IF k = 1 THEN 1 ELSE NthNewline(content, k - 1) + 1,
         IF k <= Cardinality(Newlines(content))
         THEN NthNewline(content, k) - 1 ELSE Len(content))

(***************************************************************************)
(* C15.  The document built from a file text has exactly one line per      *)
(* newline-separated line of the text, in file order, each the parse of    *)
(* that line alone; blank lines stay as Comment lines, a single final      *)
(* newline adds no line, and the empty file gives the empty document.      *)
(***************************************************************************)
DocumentHasOneLinePerFileLine ==
  ppc \in {"doc_parsed", "doc_shown"} =>
    /\ Len(parsed) = LineCount(input)
    /\ \A k \in 1..Len(parsed) :
         /\ parsed[k] = RebaseTodoLine_parse(FileLine(input, k))
         /\ SplitWhitespace(FileLine(input, k)) = <<>> => parsed[k] = Comment(<<>>)
    /\ input = <<>> => parsed = <<>>
    /\ ppc = "doc_shown" => Len(output) = LineCount(input)

\* a comment, a command, a blank line and a final newline
BlankLineKept ==
  /\ ppc = "doc_shown"
  /\ input = <<"#note", NL, "pick", SP, "a1", NL, NL>>
  /\ parsed = <<Comment(<<"#note">>), CommitLine("Pick", "a1", <<>>), Comment(<<>>)>>
  /\ output = << <<"#note">>, <<"pick", SP, "a1">>, <<>> >>

(***************************************************************************)
(* C16.  The empty line, a whitespace-only line and a line whose trimmed   *)
(* text starts with '#' parse to Comment, and that Comment serializes to   *)
(* the trimmed input exactly, inner spacing included (to the empty text    *)
(* for the empty line).                                                    *)
(***************************************************************************)
CommentLinePreserved ==
  (/\ ppc \in {"parsed", "shown"}
   /\ \/ Trimmed(input) = <<>>
      \/ Trimmed(input)[1] \in HashWords) =>
    /\ parsed[1] = Comment(Trimmed(input))
    /\ ppc = "shown" => output[1] = Trimmed(input)
    /\ (ppc = "shown" /\ SplitWhitespace(input) = <<>>) => output[1] = <<>>

\* an indented comment with double spaces inside and a trailing space
PaddedCommentShown ==
  /\ ppc = "shown"
  /\ input = <<SP, "#", SP, SP, "a1", SP>>
  /\ parsed[1] = Comment(<<"#", SP, SP, "a1">>)
  /\ output[1] = <<"#", SP, SP, "a1">>

(***************************************************************************)
(* C17.  A swap down or up on a document with no actionable line or with   *)
(* exactly one actionable line is a no-op: the lines and the cursor are    *)
(* what they were before the event.                                        *)
(***************************************************************************)
SwapWithoutPartnerIsNoOp ==
  (/\ lastEvent \in {ShiftDown, ShiftUp}
   /\ Cardinality(Actionable(prevLines)) <= 1) =>
    /\ lines = prevLines
    /\ cursor = prevCursor

\* a swap up on the only actionable line, between two Comments
LoneLineSwappedUp ==
  /\ lastEvent = ShiftUp
  /\ Len(prevLines) = 3
  /\ Actionable(prevLines) = {1}
  /\ prevCursor = 1
  /\ lines = prevLines
  /\ cursor = 1

(***************************************************************************)
(* C18.  On the empty document and on a document of Comments only, a move  *)
(* down or up leaves the cursor and the lines as they were.  On the empty  *)
(* document nothing is selected: get_current_line is None; and it is None  *)
(* only when the document is empty.                                        *)
(***************************************************************************)
MoveEvents == {Key("Down", "NONE"), Key("Up", "NONE"), Key("Down", "CONTROL")}

CarriesNoCommit(ls, c) ==
  \/ c >= Len(ls)
  \/ At(ls, c).kind \in {"Comment", "Exec", "Label", "Reset", "Merge", "UpdateRef"}

ActionKeyWithoutCommitIgnored ==
  [][ (/\ steps' = steps + 1
       /\ lastEvent'.kind = "Key"
       /\ lastEvent'.code \in ActionCodes
       /\ CarriesNoCommit(lines, cursor)) =>
        /\ UNCHANGED <<lines, cursor, file, writes, result>>
        /\ mode = "Editing" /\ mode' = "Editing"
    ]_vars

\* s pressed on an exec line, after a move onto it
SquashKeyOnExecIgnored ==
  /\ IsKey(lastEvent, "s")
  /\ steps = 2
  /\ mode = "Editing"
  /\ prevCursor > 0
  /\ At(prevLines, prevCursor).kind = "Exec"
  /\ lines = prevLines
  /\ cursor = prevCursor
  /\ writes = 0

(***************************************************************************)
(* C20.  An input event that is not one of the bindings Up, Down,          *)
(* Shift+Up, Shift+Down, p, e, r, s, f, d, q, a leaves the lines, the      *)
(* cursor and the file unchanged and the session in Editing.               *)
(***************************************************************************)
BoundEvents ==
  {Key(c, "NONE") : c \in {"Up", "Down", "q", "a"} \cup ActionCodes}
    \cup {ShiftDown, ShiftUp}

OtherEventsIgnored ==
  [][ (steps' = steps + 1 /\ lastEvent' \notin BoundEvents) =>
        /\ UNCHANGED <<lines, cursor, file>>
        /\ mode' = "Editing"
    ]_vars

\* the same for the events that reach the default arm of the match
UnmatchedEventsIgnored ==
  [][ (steps' = steps + 1 /\ lastEvent' \notin BoundEvents
       /\ ~(lastEvent'.kind = "Key" /\ lastEvent'.code \in {"Up", "Down", "q", "a"} \cup ActionCodes)) =>
        /\ UNCHANGED <<lines, cursor, file>>
        /\ mode' = "Editing"
    ]_vars

\* Ctrl+Down moved the cursor
ControlDownMoved ==
  /\ lastEvent = Key("Down", "CONTROL")
  /\ lines = prevLines
  /\ cursor # prevCursor

(***************************************************************************)
(* C21.  During a session the number of lines and the set of indexes that  *)
(* hold Comment lines never change: every move, swap and action key leaves *)
(* each Comment line at its index with its text.                           *)
(***************************************************************************)
CommentIndexes(ls) == {i \in 0..(Len(ls) - 1) : IsComment(At(ls, i))}

CommentsStayInPlace ==
  /\ [](writes = 0 =>
          LET original == RebaseTodo_parse(file) IN
            /\ Len(lines) = Len(original)
            /\ CommentIndexes(lines) = CommentIndexes(original)
            /\ \A i \in CommentIndexes(original) : At(lines, i) = At(original, i))
  /\ [][ /\ Len(lines') = Len(lines)
         /\ CommentIndexes(lines') = CommentIndexes(lines)
         /\ \A i \in CommentIndexes(lines) : At(lines', i) = At(lines, i)
       ]_vars

\* a swap that wrapped over a leading Comment, then an action key, on a
\* document whose order and kinds have changed
CommentKeptThroughEdits ==
  /\ lastEvent.kind = "Key" /\ lastEvent.code \in ActionCodes
  /\ prevSwap \in {ShiftDown, ShiftUp}
  /\ steps >= 2
  /\ writes = 0
  /\ Len(lines) = 3
  /\ CommentIndexes(lines) = {0}
  /\ lines # prevLines
  /\ \A i \in 1..2 : At(lines, i) # At(RebaseTodo_parse(file), i)

(***************************************************************************)
(* C22.  No session state indexes the lines out of bounds: on a non-empty  *)
(* document the cursor is below the number of lines; set_current_line and  *)
(* the exchange of a swap run only with indexes inside the sequence; on    *)
(* the empty document neither runs.                                        *)
(***************************************************************************)
InBounds(ls, i) == i \in 0..(Len(ls) - 1)

\* the step handles an action key with Some(commit): set_current_line runs
RunsSetCurrentLine ==
  /\ steps' = steps + 1
  /\ lastEvent'.kind = "Key" /\ lastEvent'.code \in ActionCodes
  /\ CurrentCommit # <<>>

\* the step handles a swap whose scan finds a line: lines.swap runs
RunsSwap ==
  /\ steps' = steps + 1
  /\ lastEvent' \in {ShiftDown, ShiftUp}
  /\ lines # <<>>
  /\ Actionable(lines) # {}

IndexesStayInBounds ==
  /\ []((mode # "Idle" /\ lines # <<>>) => InBounds(lines, cursor))
  /\ [][ /\ RunsSetCurrentLine => InBounds(lines, cursor)
         /\ RunsSwap => InBounds(lines, cursor) /\ InBounds(lines, cursor')
         /\ lines = <<>> => ~RunsSetCurrentLine /\ ~RunsSwap /\ lines' = <<>>
       ]_vars

\* a swap down from the last index that wrapped to the front
SwapWrappedFromLastIndex ==
  /\ lastEvent = ShiftDown
  /\ Len(lines) = 3
  /\ prevCursor = 2
  /\ cursor < prevCursor
  /\ lines # prevLines

(***************************************************************************)
(* C23.  From a state with the cursor on an actionable line, a swap down   *)
(* immediately followed by a swap up, and a swap up immediately followed   *)
(* by a swap down, bring back the cursor index and the line order,         *)
(* whatever Comments lie between the exchanged lines and also when the     *)
(* scan wraps around the end of the document.                              *)
(***************************************************************************)
SwapPairRestoresCursorAndOrder ==
  [][ (/\ steps' = steps + 1
       /\ \/ lastEvent = ShiftDown /\ lastEvent' = ShiftUp
          \/ lastEvent = ShiftUp /\ lastEvent' = ShiftDown
       /\ prevCursor \in Actionable(prevLines)) =>
        /\ lines' = prevLines
        /\ cursor' = prevCursor
    ]_vars

\* a swap up that wrapped over a leading Comment to the last line, undone
\* by a swap down that wrapped back
WrappedSwapPairUndone ==
  /\ lastEvent = ShiftDown
  /\ prevSwap = ShiftUp
  /\ steps = 2
  /\ writes = 0
  /\ Len(lines) = 3
  /\ CommentIndexes(lines) = {0}
  /\ prevCursor = 2
  /\ cursor = 1
  /\ lines # prevLines
  /\ lines = RebaseTodo_parse(file)

====
